---- MODULE Spec2Model ----
(***************************************************************************)
(* A model of src/app.py: the search_answer request handler of the medical *)
(* assistant, with the pure text functions it is built from.               *)
(*                                                                         *)
(* Python str values are TLA+ strings; a character is a string of length   *)
(* one, taken with SubSeq.  An optional str is a tuple: None is <<>> and   *)
(* the str s is <<s>>.                                                     *)
(***************************************************************************)
EXTENDS Integers, Sequences, FiniteSets, TLC

VARIABLES
    OPENAI_API_KEY,              \* module globals read from the environment
    GEMINI_API_KEY,
    GOOGLE_SEARCH_KEY,
    GOOGLE_SEARCH_CX_RESTRICTED,
    GOOGLE_SEARCH_CX_BROAD,
    data,                        \* the JSON body of the request
    pc,                          \* position of the handler
    latest_user_message,         \* locals of search_answer
    last_topic,
    user_query,
    results,
    answer,
    broad_results,
    broad_answer,
    gen,                         \* the running generate_answer_with_sources frame
    calls,                       \* calls made so far by the handler, in order
    response,                    \* what the handler returned
    fn                           \* frame of a pure function applied on its own

vars == <<OPENAI_API_KEY, GEMINI_API_KEY, GOOGLE_SEARCH_KEY,
          GOOGLE_SEARCH_CX_RESTRICTED, GOOGLE_SEARCH_CX_BROAD, data, pc,
          latest_user_message, last_topic, user_query, results, answer,
          broad_results, broad_answer, gen, calls, response, fn>>

handlerVars == <<OPENAI_API_KEY, GEMINI_API_KEY, GOOGLE_SEARCH_KEY,
          GOOGLE_SEARCH_CX_RESTRICTED, GOOGLE_SEARCH_CX_BROAD, data, pc,
          latest_user_message, last_topic, user_query, results, answer,
          broad_results, broad_answer, gen, calls, response>>

None == <<>>
Some(s) == <<s>>

----------------------------------------------------------------------------
(* Python str primitives *)

UpperLetters == "ABCDEFGHIJKLMNOPQRSTUVWXYZ"
LowerLetters == "abcdefghijklmnopqrstuvwxyz"
Digits == "0123456789"

\* s[i-1:i]: the character at position i, empty outside the str
Char(s, i) == IF 1 <= i /\ i <= Len(s) THEN SubSeq(s, i, i) ELSE ""

\* `sub in s` on two str
In(sub, s) ==
    \E i \in 1..(Len(s) - Len(sub) + 1) : SubSeq(s, i, i + Len(sub) - 1) = sub

UpperSet == {Char(UpperLetters, i) : i \in 1..Len(UpperLetters)}

LowerOf ==
    [c \in UpperSet |->
        Char(LowerLetters, CHOOSE i \in 1..Len(UpperLetters) : Char(UpperLetters, i) = c)]

LowerChar(c) == IF c \in UpperSet THEN LowerOf[c] ELSE c

RECURSIVE lower(_)
lower(s) ==
    IF s = "" THEN "" ELSE LowerChar(Char(s, 1)) \o lower(SubSeq(s, 2, Len(s)))

IsSpace(c) == c \in {" ", "\n", "\t", "\r"}

WordChars ==
    {Char(LowerLetters \o UpperLetters \o Digits \o "_", i) :
        i \in 1..Len(LowerLetters \o UpperLetters \o Digits \o "_")}

\* the regular expression class \w
IsWordChar(c) == c \in WordChars

strip(s) ==
    LET keep == {i \in 1..Len(s) : ~IsSpace(Char(s, i))}
    IN  IF keep = {} THEN ""
        ELSE SubSeq(s, CHOOSE i \in keep : \A j \in keep : i <= j,
                       CHOOSE i \in keep : \A j \in keep : j <= i)

\* the regular expression anchor \b before the character at position i
WordBoundary(s, i) ==
    (i > 1 /\ IsWordChar(Char(s, i - 1))) # (i <= Len(s) /\ IsWordChar(Char(s, i)))

\* does the literal w match s at position i, ignoring case
MatchesAt(w, s, i) ==
    /\ i + Len(w) - 1 <= Len(s)
    /\ lower(SubSeq(s, i, i + Len(w) - 1)) = lower(w)

RECURSIVE Join(_, _)
Join(sep, seq) ==
    IF seq = <<>> THEN ""
    ELSE IF Len(seq) = 1 THEN seq[1]
    ELSE seq[1] \o sep \o Join(sep, Tail(seq))

Min(a, b) == IF a <= b THEN a ELSE b

----------------------------------------------------------------------------
(* contains_abuse *)

ABUSIVE_WORDS ==
    <<"idiot", "stupid", "dumb", "hate", "shut up", "fool", "damn", "bastard", "crap">>

\* contains_abuse without text.lower()
contains_abuse_case_sensitive(text) ==
    \E k \in 1..Len(ABUSIVE_WORDS) : In(ABUSIVE_WORDS[k], text)

contains_abuse(text) ==
    LET lowered == lower(text)
    IN  \E k \in 1..Len(ABUSIVE_WORDS) : In(ABUSIVE_WORDS[k], lowered)

----------------------------------------------------------------------------
(* is_answer_incomplete *)

HedgePhrases == <<"sorry", "don't know", "cannot find", "need more information">>

question_keywords ==
    <<"type", "types", "explain", "list", "what are", "different kinds", "kinds">>

\* is_answer_incomplete without the two .lower() calls
is_answer_incomplete_case_sensitive(answer_text, query) ==
    \/ \E k \in 1..Len(HedgePhrases) : In(HedgePhrases[k], answer_text)
    \/ /\ \E k \in 1..Len(question_keywords) : In(question_keywords[k], query)
       /\ ~In("type", answer_text)
       /\ ~In("kind", answer_text)
       /\ ~In("explain", answer_text)

is_answer_incomplete(answer_text, query) ==
    LET answer_lower == lower(answer_text)
    IN  \/ \E k \in 1..Len(HedgePhrases) : In(HedgePhrases[k], answer_lower)
        \/ /\ \E k \in 1..Len(question_keywords) : In(question_keywords[k], lower(query))
           /\ ~In("type", answer_lower)
           /\ ~In("kind", answer_lower)
           /\ ~In("explain", answer_lower)

----------------------------------------------------------------------------
(* rewrite_query *)

pronouns == <<"it", "those", "these", "that", "them">>

\* the pattern without its two \b anchors: (it|those|these|that|them)
PronounAtSubstring(s, i) ==
    LET hits == {k \in 1..Len(pronouns) : MatchesAt(pronouns[k], s, i)}
    IN  IF hits = {} THEN 0
        ELSE Len(pronouns[CHOOSE k \in hits : \A j \in hits : k <= j])

\* length of the match of \b(it|those|these|that|them)\b at position i, or 0
PronounAt(s, i) ==
    LET hits == {k \in 1..Len(pronouns) :
                    /\ WordBoundary(s, i)
                    /\ MatchesAt(pronouns[k], s, i)
                    /\ WordBoundary(s, i + Len(pronouns[k]))}
    IN  IF hits = {} THEN 0
        ELSE Len(pronouns[CHOOSE k \in hits : \A j \in hits : k <= j])

RECURSIVE PronounSub(_, _, _)
PronounSub(repl, s, i) ==
    IF i > Len(s) THEN ""
    ELSE LET n == PronounAt(s, i)
         IN  IF n > 0
             THEN repl \o PronounSub(repl, s, i + n)
             ELSE Char(s, i) \o PronounSub(repl, s, i + 1)

\* `v is None` in place of `not v`
IsNone(v) == v = None

\* `not v` on an optional str: None and the empty str are falsy
Falsy(v) == v = None \/ v[1] = ""

rewrite_query(query, topic) ==
    IF Falsy(topic) THEN query ELSE PronounSub(topic[1], query, 1)

----------------------------------------------------------------------------
(* clean_answer_placeholders *)

\* index of the first ")" of s at or after position i, or 0
FirstClose(s, i) ==
    LET at == {j \in i..Len(s) : Char(s, j) = ")"}
    IN  IF at = {} THEN 0 ELSE CHOOSE j \in at : \A k \in at : j <= k

\* end of the match of \*\([^)]*citation[^)]*\)\* at position i, or 0
PlaceholderEnd(s, i) ==
    LET j == FirstClose(s, i + 2)
    IN  IF /\ Char(s, i) = "*"
           /\ Char(s, i + 1) = "("
           /\ j > 0
           /\ Char(s, j + 1) = "*"
           /\ In("citation", lower(SubSeq(s, i + 2, j - 1)))
        THEN j + 1 ELSE 0

RECURSIVE PlaceholderSub(_, _)
PlaceholderSub(s, i) ==
    IF i > Len(s) THEN ""
    ELSE LET e == PlaceholderEnd(s, i)
         IN  IF e > 0
             THEN PlaceholderSub(s, e + 1)
             ELSE Char(s, i) \o PlaceholderSub(s, i + 1)

\* end of the match of \n\s*\n at position i, or 0
BlankRunEnd(s, i) ==
    IF Char(s, i) # "\n" THEN 0
    ELSE LET ends == {k \in (i + 1)..Len(s) :
                         /\ Char(s, k) = "\n"
                         /\ \A j \in (i + 1)..(k - 1) : IsSpace(Char(s, j))}
         IN  IF ends # {} THEN CHOOSE k \in ends : \A j \in ends : j <= k ELSE 0

RECURSIVE BlankRunSub(_, _)
BlankRunSub(s, i) ==
    IF i > Len(s) THEN ""
    ELSE LET e == BlankRunEnd(s, i)
         IN  IF e > 0
             THEN "\n\n" \o BlankRunSub(s, e + 1)
             ELSE Char(s, i) \o BlankRunSub(s, i + 1)

clean_answer_placeholders(answer_text) ==
    strip(BlankRunSub(PlaceholderSub(answer_text, 1), 1))

----------------------------------------------------------------------------
(* extract_types_from_snippets *)

TypeWords == <<"types", "kinds", "subtypes", "categories">>

IsTypesChar(c) == IsWordChar(c) \/ IsSpace(c) \/ c = ","

\* end of the longest run of [\w\s,] characters of s starting at position i
RunEnd(s, i) ==
    LET stops == {j \in i..Len(s) : ~IsTypesChar(Char(s, j))}
    IN  IF stops = {} THEN Len(s)
        ELSE (CHOOSE j \in stops : \A k \in stops : j <= k) - 1

\* start of group 2 of (types|kinds|subtypes|categories) of ([\w\s,]+)
\* matched at position i, or 0
TypesGroupAt(s, i) ==
    LET hits == {k \in 1..Len(TypeWords) :
                    /\ MatchesAt(TypeWords[k] \o " of ", s, i)
                    /\ RunEnd(s, i + Len(TypeWords[k]) + 4) >= i + Len(TypeWords[k]) + 4}
    IN  IF hits = {} THEN 0
        ELSE i + Len(TypeWords[CHOOSE k \in hits : \A j \in hits : k <= j]) + 4

RECURSIVE FindTypes(_, _)
FindTypes(s, i) ==
    IF i > Len(s) THEN <<>>
    ELSE LET g == TypesGroupAt(s, i)
         IN  IF g > 0
             THEN <<strip(SubSeq(s, g, RunEnd(s, g)))>> \o FindTypes(s, RunEnd(s, g) + 1)
             ELSE FindTypes(s, i + 1)

RECURSIVE TypesOfAll(_)
TypesOfAll(res) ==
    IF res = <<>> THEN <<>>
    ELSE FindTypes(res[1].snippet, 1) \o TypesOfAll(Tail(res))

\* both branches of the topic test append the same text
extract_types_from_snippets(res, topic) == Join("\n", TypesOfAll(res))

----------------------------------------------------------------------------
(* google_search_with_citations *)

NumResultsDefault == 5

\* item.get(key, "")
ItemGet(item, key) == IF key \in DOMAIN item THEN item[key] ELSE ""

RECURSIVE ResultsOf(_)
ResultsOf(items) ==
    IF items = <<>> THEN <<>>
    ELSE <<[title |-> ItemGet(items[1], "title"),
            snippet |-> ItemGet(items[1], "snippet"),
            link |-> ItemGet(items[1], "link")]>> \o ResultsOf(Tail(items))

\* http is what the GET of the search endpoint does: kind is "ok" (a JSON
\* object, with an items list when has_items) or the exception raised by
\* requests.get, raise_for_status or r.json.
\* google_search_with_citations without the try/except around the request
google_search_unguarded(query, num_results, broad, http) ==
    LET cx == IF broad THEN GOOGLE_SEARCH_CX_BROAD ELSE GOOGLE_SEARCH_CX_RESTRICTED
    IN  IF GOOGLE_SEARCH_KEY = "" \/ cx = ""
        THEN [raised |-> FALSE, results |-> <<>>, sent |-> FALSE, failed |-> TRUE]
        ELSE IF http.kind # "ok"
        THEN [raised |-> TRUE, results |-> <<>>, sent |-> TRUE, failed |-> TRUE]
        ELSE [raised |-> FALSE,
              results |-> ResultsOf(IF http.has_items THEN http.items ELSE <<>>),
              sent |-> TRUE, failed |-> FALSE]

\* The value is what the function does: whether it raises, the results it
\* returns, and whether it sent the request and the request failed.
google_search_with_citations(query, num_results, broad, http) ==
    LET cx == IF broad THEN GOOGLE_SEARCH_CX_BROAD ELSE GOOGLE_SEARCH_CX_RESTRICTED
    IN  IF GOOGLE_SEARCH_KEY = "" \/ cx = ""
        THEN [raised |-> FALSE, results |-> <<>>, sent |-> FALSE, failed |-> TRUE]
        ELSE IF http.kind # "ok"
        THEN [raised |-> FALSE, results |-> <<>>, sent |-> TRUE, failed |-> TRUE]
        ELSE [raised |-> FALSE,
              results |-> ResultsOf(IF http.has_items THEN http.items ELSE <<>>),
              sent |-> TRUE, failed |-> FALSE]

\* the entry of the call trace for one call of the search function
SearchCall(query, num_results, broad, r) ==
    [fn |-> "search", q |-> query, num |-> num_results, broad |-> broad,
     sent |-> r.sent, failed |-> r.failed, raised |-> r.raised, returned |-> r.results]

----------------------------------------------------------------------------
(* generate_answer_with_sources *)

RECURSIVE Str(_)
Str(n) == IF n < 10 THEN Char(Digits, n + 1) ELSE Str(n \div 10) \o Char(Digits, (n % 10) + 1)

RECURSIVE FormatResults(_, _)
FormatResults(res, idx) ==
    IF idx > Len(res) THEN ""
    ELSE "[" \o Str(idx) \o "] " \o res[idx].title \o "\n" \o res[idx].snippet
         \o "\nSource: " \o res[idx].link \o "\n\n" \o FormatResults(res, idx + 1)

SystemPromptHead ==
    "You are a helpful and knowledgeable medical assistant chatbot. "
    \o "When the user uses pronouns like 'it', 'those', 'these', or says 'explain that', "
    \o "infer that they mean the most recent medical topic or condition discussed earlier in the conversation. "
    \o "Always keep track of conversational context carefully. "
    \o "Answer the user's questions using ONLY the information in the following web search results. "
    \o "Cite your sources clearly and explicitly by referencing the corresponding source numbers like [1], [2], etc. "
    \o "Do NOT invent or hallucinate citations. "
    \o "Do NOT use any placeholder text such as '(This would be a citation...)'. "
    \o "If the answer cannot be found in these sources, say politely that you do not know and recommend consulting a healthcare professional.\n\n"

system_prompt(res, topic) ==
    LET extracted_types == extract_types_from_snippets(res, topic)
    IN  SystemPromptHead
        \o (IF extracted_types # ""
            THEN "Here are some types or categories extracted from the search results:\n"
                 \o extracted_types \o "\n\n"
            ELSE "")
        \o FormatResults(res, 1) \o "\n"

openai_messages(messages, prompt) ==
    <<[role |-> "system", content |-> prompt]>> \o messages

\* msg["role"] or msg["content"] of some turn raises KeyError
ConversationRaises(messages) ==
    \E i \in 1..Len(messages) : {"role", "content"} \ DOMAIN messages[i] # {}

\* str(e) of that KeyError: the first turn that lacks a key, role read first
ConversationKeyError(messages) ==
    LET bad == {i \in 1..Len(messages) : {"role", "content"} \ DOMAIN messages[i] # {}}
        i == CHOOSE j \in bad : \A k \in bad : j <= k
    IN  IF "role" \notin DOMAIN messages[i] THEN "'role'" ELSE "'content'"

RECURSIVE ConversationLines(_)
ConversationLines(messages) ==
    IF messages = <<>> THEN ""
    ELSE (IF messages[1].role = "user" THEN "User" ELSE "Assistant")
         \o ": " \o messages[1].content \o "\n" \o ConversationLines(Tail(messages))

conversation_text(messages, prompt) ==
    prompt \o "\nConversation:\n" \o ConversationLines(messages) \o "Assistant:"

FallbackMessage == "I don't know. Please consult a medical professional."

\* the except clause of the OpenAI call: TRUE when the function returns the
\* error text, FALSE when it falls through to Gemini
OpenAIErrorReturns(e) == ~In("quota", lower(e))

OpenAIErrorText(e) == "OpenAI error: " \o e

GeminiErrorText(e) == "Gemini error: " \o e

----------------------------------------------------------------------------
(* get_last_medical_topic *)

\* a turn of the history is a JSON object (a record holding some of the keys
\* role and content) or, in a malformed request, a JSON string
IsDict(msg) == "type" \notin DOMAIN msg

IsUser(msg) == "role" \in DOMAIN msg /\ msg.role = "user"

\* msg.get("content", "")
ContentOf(msg) == IF "content" \in DOMAIN msg THEN msg.content ELSE ""

TopicLabels == {"DISEASE", "DISORDER", "SYMPTOM", "CONDITION"}

\* EntityTexts without the test of ent.label_
RECURSIVE AllEntityTexts(_)
AllEntityTexts(ents) ==
    IF ents = <<>> THEN <<>>
    ELSE <<ents[1].text>> \o AllEntityTexts(Tail(ents))

RECURSIVE EntityTexts(_)
EntityTexts(ents) ==
    IF ents = <<>> THEN <<>>
    ELSE (IF ents[1].label_ \in TopicLabels THEN <<ents[1].text>> ELSE <<>>)
         \o EntityTexts(Tail(ents))

\* nlp maps the text of a turn to the entities the recognizer finds in it.
\* The scan runs from turn i down to the first turn.
RECURSIVE ScanTopic(_, _, _)
ScanTopic(messages, nlp, i) ==
    IF i = 0 THEN [raised |-> FALSE, topic |-> None, calls |-> <<>>]
    ELSE IF ~IsDict(messages[i]) THEN [raised |-> TRUE, topic |-> None, calls |-> <<>>]
    ELSE IF ~IsUser(messages[i]) THEN ScanTopic(messages, nlp, i - 1)
    ELSE LET text == ContentOf(messages[i])
             entities == EntityTexts(nlp[text])
             call == <<[fn |-> "nlp", text |-> text, ents |-> nlp[text]]>>
             rest == ScanTopic(messages, nlp, i - 1)
         IN  IF entities # <<>>
             THEN [raised |-> FALSE, topic |-> Some(lower(entities[1])), calls |-> call]
             ELSE [rest EXCEPT !.calls = call \o rest.calls]

get_last_medical_topic(messages, nlp) == ScanTopic(messages, nlp, Len(messages))

----------------------------------------------------------------------------
(* search_answer: the request handler, one action per step *)

\* data.get("messages"): type is the JSON type of the value ("none" when the
\* key is absent or null), val its turns when it is a list
Messages == data.messages

\* index of the turn the reversed scan stops at, 0 when it finds no user turn
LatestUserIndex(msgs) ==
    LET users == {i \in 1..Len(msgs) : IsDict(msgs[i]) /\ IsUser(msgs[i])}
    IN  IF users = {} THEN 0 ELSE CHOOSE i \in users : \A j \in users : j <= i

\* msg.get on a turn that is no object raises
LatestUserRaises(msgs) ==
    \E i \in (LatestUserIndex(msgs) + 1)..Len(msgs) : ~IsDict(msgs[i])

LatestUserMessage(msgs) ==
    IF LatestUserIndex(msgs) = 0 THEN None
    ELSE Some(strip(ContentOf(msgs[LatestUserIndex(msgs)])))

\* return jsonify({"answer": ..., "sources": ...}): no status is given, so
\* the framework answers 200
Jsonify(answer_text, sources) ==
    [status |-> 200, body |-> [answer |-> answer_text, sources |-> sources]]

\* an exception that leaves the handler: the framework answers 500
ServerError == [status |-> 500, body |-> [error |-> "Internal Server Error"]]

NoResponse == [status |-> 0, body |-> [error |-> ""]]

NoListAnswer == "Please provide conversation history as a list of messages."
NoUserAnswer == "No user message found in conversation."
polite_response ==
    "I am here to help with medical questions. "
    \o "Please keep the conversation respectful. How can I assist you today?"
GreetingAnswer == "Hi! How may I help you with your medical questions today?"

greetings == {"hi", "hello", "hey", "good morning", "good afternoon", "good evening"}

Return(r) == /\ response' = r
             /\ pc' = "done"

Raise == /\ response' = ServerError
         /\ pc' = "raised"

\* lines 208-220
Validate ==
    /\ pc = "validate"
    /\ IF Messages.type # "list" \/ Messages.val = <<>>
       THEN /\ Return(Jsonify(NoListAnswer, <<>>))
            /\ UNCHANGED latest_user_message
       ELSE IF LatestUserRaises(Messages.val)
       THEN /\ Raise
            /\ UNCHANGED latest_user_message
       ELSE /\ latest_user_message' = LatestUserMessage(Messages.val)
            /\ IF Falsy(LatestUserMessage(Messages.val))
               THEN Return(Jsonify(NoUserAnswer, <<>>))
               ELSE pc' = "safety" /\ UNCHANGED response
    /\ UNCHANGED <<OPENAI_API_KEY, GEMINI_API_KEY, GOOGLE_SEARCH_KEY,
                   GOOGLE_SEARCH_CX_RESTRICTED, GOOGLE_SEARCH_CX_BROAD, data,
                   last_topic, user_query, results, answer, broad_results,
                   broad_answer, gen, calls, fn>>

\* lines 222-231
SafetyCheck ==
    /\ pc = "safety"
    /\ IF contains_abuse(latest_user_message[1])
       THEN Return(Jsonify(polite_response, <<>>))
       ELSE IF lower(latest_user_message[1]) \in greetings
       THEN Return(Jsonify(GreetingAnswer, <<>>))
       ELSE pc' = "resolve" /\ UNCHANGED response
    /\ UNCHANGED <<OPENAI_API_KEY, GEMINI_API_KEY, GOOGLE_SEARCH_KEY,
                   GOOGLE_SEARCH_CX_RESTRICTED, GOOGLE_SEARCH_CX_BROAD, data,
                   latest_user_message, last_topic, user_query, results, answer,
                   broad_results, broad_answer, gen, calls, fn>>

----------------------------------------------------------------------------
(* the entity recognizer, an external model: any list of entities whose  *)
(* texts occur in the turn                                                *)

MaxEnts == 2

EntityPool ==
    <<[text |-> "diabetes", label_ |-> "ENTITY"],
      [text |-> "diabetes", label_ |-> "DISEASE"],
      [text |-> "Asthma", label_ |-> "DISORDER"],
      [text |-> "headache", label_ |-> "SYMPTOM"],
      [text |-> "listeriosis", label_ |-> "CONDITION"]>>

RECURSIVE PoolSeq(_, _)
PoolSeq(S, i) ==
    IF i > Len(EntityPool) THEN <<>>
    ELSE (IF i \in S THEN <<EntityPool[i]>> ELSE <<>>) \o PoolSeq(S, i + 1)

EntityOptions(text) ==
    {PoolSeq(S, 1) :
        S \in {T \in SUBSET {i \in 1..Len(EntityPool) : In(EntityPool[i].text, text)} :
                  Cardinality(T) <= MaxEnts}}

UserTexts(msgs) ==
    {ContentOf(msgs[i]) : i \in {j \in 1..Len(msgs) : IsDict(msgs[j]) /\ IsUser(msgs[j])}}

NlpOracles(msgs) ==
    {f \in [UserTexts(msgs) -> UNION {EntityOptions(t) : t \in UserTexts(msgs)}] :
        \A t \in UserTexts(msgs) : f[t] \in EntityOptions(t)}

----------------------------------------------------------------------------
(* the handler, continued *)

\* lines 233-234
ResolveTopic ==
    /\ pc = "resolve"
    /\ \E nlp \in NlpOracles(Messages.val) :
          LET r == get_last_medical_topic(Messages.val, nlp)
          IN  /\ calls' = calls \o r.calls
              /\ IF r.raised
                 THEN /\ Raise
                      /\ UNCHANGED <<last_topic, user_query>>
                 ELSE /\ last_topic' = r.topic
                      /\ user_query' = rewrite_query(latest_user_message[1], r.topic)
                      /\ pc' = "search_restricted"
                      /\ UNCHANGED response
    /\ UNCHANGED <<OPENAI_API_KEY, GEMINI_API_KEY, GOOGLE_SEARCH_KEY,
                   GOOGLE_SEARCH_CX_RESTRICTED, GOOGLE_SEARCH_CX_BROAD, data,
                   latest_user_message, results, answer, broad_results,
                   broad_answer, gen, fn>>

\* what the search endpoint may do
MaxItems == 2

ItemPool ==
    <<[title |-> "Diabetes", link |-> "https://who.int/d",
       snippet |-> "The main types of diabetes are type 1, type 2. See more"],
      [title |-> "Asthma", link |-> "https://nhs.uk/a"],
      [title |-> "Care", link |-> "https://cdc.gov/c",
       snippet |-> "Subtypes of asthma (and kinds of care)"]>>

HttpOutcomes ==
    {[kind |-> k, has_items |-> FALSE, items |-> <<>>] :
        k \in {"ConnectionError", "HTTPError", "Timeout", "JSONDecodeError", "ok"}}
    \cup {[kind |-> "ok", has_items |-> TRUE,
           items |-> SubSeq(ItemPool, 1, Min(n, Len(ItemPool)))] : n \in 0..MaxItems}

\* lines 236-239; the error text the search returns is always empty
SearchRestricted ==
    /\ pc = "search_restricted"
    /\ \E http \in HttpOutcomes :
          LET r == google_search_with_citations(user_query, NumResultsDefault, FALSE, http)
          IN  /\ calls' = Append(calls, SearchCall(user_query, NumResultsDefault, FALSE, r))
              /\ IF r.raised
                 THEN /\ Raise
                      /\ UNCHANGED <<results, gen>>
                 ELSE /\ results' = r.results
                      /\ gen' = [cycle |-> 1, system_prompt |-> ""]
                      /\ pc' = "generate"
                      /\ UNCHANGED response
    /\ UNCHANGED <<OPENAI_API_KEY, GEMINI_API_KEY, GOOGLE_SEARCH_KEY,
                   GOOGLE_SEARCH_CX_RESTRICTED, GOOGLE_SEARCH_CX_BROAD, data,
                   latest_user_message, last_topic, user_query, answer,
                   broad_results, broad_answer, fn>>

\* the results the running generate_answer_with_sources call was given
GenResults == IF gen.cycle = 2 THEN broad_results ELSE results

\* GenReturn where a longer second answer replaces the first and the result
\* list stays the restricted one
GenReturnAnswerOnly(text) ==
    IF gen.cycle = 1
    THEN /\ answer' = clean_answer_placeholders(text)
         /\ pc' = "evaluate"
         /\ UNCHANGED <<results, broad_answer>>
    ELSE /\ broad_answer' = clean_answer_placeholders(text)
         /\ IF Len(clean_answer_placeholders(text)) > Len(answer)
            THEN answer' = clean_answer_placeholders(text)
            ELSE UNCHANGED answer
         /\ UNCHANGED results
         /\ pc' = "respond"

\* GenReturn where the second answer goes back to the completeness check
GenReturnReevaluate(text) ==
    IF gen.cycle = 1
    THEN /\ answer' = clean_answer_placeholders(text)
         /\ pc' = "evaluate"
         /\ UNCHANGED <<results, broad_answer>>
    ELSE /\ broad_answer' = clean_answer_placeholders(text)
         /\ answer' = clean_answer_placeholders(text)
         /\ results' = broad_results
         /\ pc' = "evaluate"

\* generate_answer_with_sources returns text: lines 241-242 on the first
\* call, lines 248-252 on the second
GenReturn(text) ==
    IF gen.cycle = 1
    THEN /\ answer' = clean_answer_placeholders(text)
         /\ pc' = "evaluate"
         /\ UNCHANGED <<results, broad_answer>>
    ELSE /\ broad_answer' = clean_answer_placeholders(text)
         /\ IF Len(clean_answer_placeholders(text)) > Len(answer)
            THEN /\ answer' = clean_answer_placeholders(text)
                 /\ results' = broad_results
            ELSE UNCHANGED <<answer, results>>
         /\ pc' = "respond"

\* Generate where the system message is put in front of the request's own
\* list (messages.insert(0, ...)) instead of a new list
GenerateInPlace ==
    /\ pc = "generate"
    /\ gen' = [gen EXCEPT !.system_prompt = system_prompt(GenResults, last_topic)]
    /\ calls' = Append(calls, [fn |-> "generate", cycle |-> gen.cycle,
                               messages |-> Messages.val, results |-> GenResults,
                               last_topic |-> last_topic])
    /\ data' = [data EXCEPT !.messages.val =
                    openai_messages(Messages.val, system_prompt(GenResults, last_topic))]
    /\ IF OPENAI_API_KEY # ""
       THEN pc' = "openai" /\ UNCHANGED <<answer, results, broad_answer>>
       ELSE IF GEMINI_API_KEY # ""
       THEN pc' = "gemini" /\ UNCHANGED <<answer, results, broad_answer>>
       ELSE GenReturn(FallbackMessage)
    /\ UNCHANGED <<OPENAI_API_KEY, GEMINI_API_KEY, GOOGLE_SEARCH_KEY,
                   GOOGLE_SEARCH_CX_RESTRICTED, GOOGLE_SEARCH_CX_BROAD,
                   latest_user_message, last_topic, user_query, broad_results,
                   response, fn>>

\* lines 123-148, 162, 176: the prompt is built and the first configured
\* provider chosen
Generate ==
    /\ pc = "generate"
    /\ gen' = [gen EXCEPT !.system_prompt = system_prompt(GenResults, last_topic)]
    /\ calls' = Append(calls, [fn |-> "generate", cycle |-> gen.cycle,
                               messages |-> Messages.val, results |-> GenResults,
                               last_topic |-> last_topic])
    /\ IF OPENAI_API_KEY # ""
       THEN pc' = "openai" /\ UNCHANGED <<answer, results, broad_answer>>
       ELSE IF GEMINI_API_KEY # ""
       THEN pc' = "gemini" /\ UNCHANGED <<answer, results, broad_answer>>
       ELSE GenReturn(FallbackMessage)
    /\ UNCHANGED <<OPENAI_API_KEY, GEMINI_API_KEY, GOOGLE_SEARCH_KEY,
                   GOOGLE_SEARCH_CX_RESTRICTED, GOOGLE_SEARCH_CX_BROAD, data,
                   latest_user_message, last_topic, user_query, broad_results,
                   response, fn>>

\* what a provider may do: answer with a text or raise an exception
LLMAnswers ==
    {"There are two main types: type 1 and type 2 [1].",
     "I'm sorry, I cannot find that.",
     "It is a chronic condition [1]. *(This would be a citation to a source.)*\n \n\nSee a doctor. ",
     "I do not know."}

ProviderErrors == {"You exceeded your current quota", "Rate limit reached", "Request timed out"}

ProviderOutcomes ==
    {[kind |-> "ok", text |-> a] : a \in LLMAnswers}
    \cup {[kind |-> "error", text |-> e] : e \in ProviderErrors}

\* lines 148-160, 162, 176
OpenAICall ==
    /\ pc = "openai"
    /\ \E o \in ProviderOutcomes :
          /\ calls' = Append(calls, [fn |-> "openai", cycle |-> gen.cycle,
                                     failed |-> o.kind # "ok", error |-> o.text,
                                     messages |-> openai_messages(Messages.val, gen.system_prompt)])
          /\ IF o.kind = "ok" THEN GenReturn(o.text)
             ELSE IF OpenAIErrorReturns(o.text) THEN GenReturn(OpenAIErrorText(o.text))
             ELSE IF GEMINI_API_KEY # ""
             THEN pc' = "gemini" /\ UNCHANGED <<answer, results, broad_answer>>
             ELSE GenReturn(FallbackMessage)
    /\ UNCHANGED <<OPENAI_API_KEY, GEMINI_API_KEY, GOOGLE_SEARCH_KEY,
                   GOOGLE_SEARCH_CX_RESTRICTED, GOOGLE_SEARCH_CX_BROAD, data,
                   latest_user_message, last_topic, user_query, broad_results,
                   gen, response, fn>>

\* GeminiCall without the try/except around the provider call
GeminiCallUncaught ==
    /\ pc = "gemini"
    /\ \E o \in ProviderOutcomes :
          /\ calls' = Append(calls, [fn |-> "gemini", cycle |-> gen.cycle,
                                     failed |-> o.kind # "ok", error |-> o.text,
                                     prompt |-> conversation_text(Messages.val, gen.system_prompt)])
          /\ IF o.kind = "ok" /\ ~ConversationRaises(Messages.val)
             THEN GenReturn(o.text) /\ UNCHANGED response
             ELSE Raise /\ UNCHANGED <<answer, results, broad_answer>>
    /\ UNCHANGED <<OPENAI_API_KEY, GEMINI_API_KEY, GOOGLE_SEARCH_KEY,
                   GOOGLE_SEARCH_CX_RESTRICTED, GOOGLE_SEARCH_CX_BROAD, data,
                   latest_user_message, last_topic, user_query, broad_results,
                   gen, fn>>

\* lines 162-173
GeminiCall ==
    /\ pc = "gemini"
    /\ IF ConversationRaises(Messages.val)
       THEN /\ GenReturn(GeminiErrorText(ConversationKeyError(Messages.val)))
            /\ UNCHANGED calls
       ELSE \E o \in ProviderOutcomes :
               /\ calls' = Append(calls, [fn |-> "gemini", cycle |-> gen.cycle,
                                          failed |-> o.kind # "ok", error |-> o.text,
                                          prompt |-> conversation_text(Messages.val, gen.system_prompt)])
               /\ IF o.kind = "ok" THEN GenReturn(o.text)
                  ELSE GenReturn(GeminiErrorText(o.text))
    /\ UNCHANGED <<OPENAI_API_KEY, GEMINI_API_KEY, GOOGLE_SEARCH_KEY,
                   GOOGLE_SEARCH_CX_RESTRICTED, GOOGLE_SEARCH_CX_BROAD, data,
                   latest_user_message, last_topic, user_query, broad_results,
                   gen, response, fn>>

\* line 245
Evaluate ==
    /\ pc = "evaluate"
    /\ pc' = IF is_answer_incomplete(answer, user_query) THEN "search_broad" ELSE "respond"
    /\ calls' = Append(calls, [fn |-> "is_answer_incomplete", answer |-> answer,
                               query |-> user_query,
                               incomplete |-> is_answer_incomplete(answer, user_query)])
    /\ UNCHANGED <<OPENAI_API_KEY, GEMINI_API_KEY, GOOGLE_SEARCH_KEY,
                   GOOGLE_SEARCH_CX_RESTRICTED, GOOGLE_SEARCH_CX_BROAD, data,
                   latest_user_message, last_topic, user_query, results, answer,
                   broad_results, broad_answer, gen, response, fn>>

\* lines 246-247
SearchBroad ==
    /\ pc = "search_broad"
    /\ \E http \in HttpOutcomes :
          LET r == google_search_with_citations(user_query, NumResultsDefault, TRUE, http)
          IN  /\ calls' = Append(calls, SearchCall(user_query, NumResultsDefault, TRUE, r))
              /\ IF r.raised
                 THEN /\ Raise
                      /\ UNCHANGED <<broad_results, gen>>
                 ELSE /\ broad_results' = r.results
                      /\ IF r.results # <<>>
                         THEN gen' = [cycle |-> 2, system_prompt |-> ""] /\ pc' = "generate"
                         ELSE pc' = "respond" /\ UNCHANGED gen
                      /\ UNCHANGED response
    /\ UNCHANGED <<OPENAI_API_KEY, GEMINI_API_KEY, GOOGLE_SEARCH_KEY,
                   GOOGLE_SEARCH_CX_RESTRICTED, GOOGLE_SEARCH_CX_BROAD, data,
                   latest_user_message, last_topic, user_query, results, answer,
                   broad_answer, fn>>

\* line 254
Respond ==
    /\ pc = "respond"
    /\ Return(Jsonify(answer, results))
    /\ UNCHANGED <<OPENAI_API_KEY, GEMINI_API_KEY, GOOGLE_SEARCH_KEY,
                   GOOGLE_SEARCH_CX_RESTRICTED, GOOGLE_SEARCH_CX_BROAD, data,
                   latest_user_message, last_topic, user_query, results, answer,
                   broad_results, broad_answer, gen, calls, fn>>

----------------------------------------------------------------------------
(* requests *)

MaxTurns == 3

U(text) == [role |-> "user", content |-> text]
A(text) == [role |-> "assistant", content |-> text]

AllHistories ==
    {<<U("Hello")>>,
     <<U(" hey\n")>>,
     <<U("what is diabetes"), A("It is a disease."), U("Good Morning")>>,
     <<U("you are an IDIOT")>>,
     <<U("whatever helps a headache")>>,
     <<U("what is diabetes")>>,
     <<U("what is diabetes"), A("It is a disease."), U("what are the types of it")>>,
     <<U("What causes Asthma"), U("is that legitimate")>>,
     <<U("I have listeriosis"), U("is it curable")>>,
     <<A("How can I help?")>>,
     <<U("what is diabetes"), U(" ")>>,
     <<[role |-> "user"]>>,
     <<[role |-> "user"], U("hello there")>>,
     <<[type |-> "str"], U("tell me more")>>,
     <<U("hello"), [type |-> "str"]>>,
     <<U("what is diabetes"), A("It is a disease."), U("list them"), A("Sorry.")>>}

Requests ==
    {[messages |-> [type |-> t, val |-> <<>>]] : t \in {"none", "str", "dict", "list"}}
    \cup {[messages |-> [type |-> "list", val |-> h]] :
             h \in {g \in AllHistories : Len(g) <= MaxTurns}}

Keys(name) == {"", name}

Init ==
    /\ OPENAI_API_KEY \in Keys("sk-openai")
    /\ GEMINI_API_KEY \in Keys("gemini-key")
    /\ GOOGLE_SEARCH_KEY \in Keys("search-key")
    /\ GOOGLE_SEARCH_CX_RESTRICTED \in Keys("cx-restricted")
    /\ GOOGLE_SEARCH_CX_BROAD \in Keys("cx-broad")
    /\ data \in Requests
    /\ pc = "validate"
    /\ latest_user_message = None
    /\ last_topic = None
    /\ user_query = ""
    /\ results = <<>>
    /\ answer = ""
    /\ broad_results = <<>>
    /\ broad_answer = ""
    /\ gen = [cycle |-> 0, system_prompt |-> ""]
    /\ calls = <<>>
    /\ response = NoResponse
    /\ fn = [name |-> "none"]

Next ==
    \/ Validate
    \/ SafetyCheck
    \/ ResolveTopic
    \/ SearchRestricted
    \/ Generate
    \/ OpenAICall
    \/ GeminiCall
    \/ Evaluate
    \/ SearchBroad
    \/ Respond

Spec == Init /\ [][Next]_vars

----------------------------------------------------------------------------
(* properties of the handler *)

Turns == Messages.val

IsTurn(msg) == IsDict(msg) /\ {"role", "content"} \subseteq DOMAIN msg

AllTurns == Messages.type = "list" /\ \A i \in 1..Len(Turns) : IsTurn(Turns[i])

\* a non-empty list of turns with a user turn of non-empty content
WellFormedRequest ==
    /\ AllTurns
    /\ \E i \in 1..Len(Turns) : IsUser(Turns[i]) /\ Turns[i].content # ""

CallsOf(f) == {i \in 1..Len(calls) : calls[i].fn = f}

\* the steps the handler has left at most, by position
Rank ==
    CASE pc = "validate" -> 13
      [] pc = "safety" -> 12
      [] pc = "resolve" -> 11
      [] pc = "search_restricted" -> 10
      [] pc = "generate" -> IF gen.cycle = 1 THEN 9 ELSE 4
      [] pc = "openai" -> IF gen.cycle = 1 THEN 8 ELSE 3
      [] pc = "gemini" -> IF gen.cycle = 1 THEN 7 ELSE 2
      [] pc = "evaluate" -> 6
      [] pc = "search_broad" -> 5
      [] pc = "respond" -> 1
      [] OTHER -> 0

\* C1: for a well-formed request, under every outcome of the search and
\* provider calls, no exception leaves the handler, every step of the handler
\* brings it closer to its return (so it returns within 13 steps), and what it
\* returns is a 200 response whose body holds exactly an answer text and a
\* sources list.
C1_AlwaysAnswers ==
    /\ [](WellFormedRequest =>
            /\ pc # "raised"
            /\ pc = "done" =>
                  /\ response.status = 200
                  /\ DOMAIN response.body = {"answer", "sources"}
                  /\ Len(response.body.answer) >= 0
                  /\ Len(response.body.sources) >= 0)
    /\ [][WellFormedRequest => Rank' < Rank]_vars

\* a well-formed request answered after the search and both providers failed
C1_Witness ==
    /\ WellFormedRequest
    /\ pc = "done"
    /\ \E i \in CallsOf("search") : calls[i].sent /\ calls[i].failed
    /\ \E i \in CallsOf("openai") : calls[i].failed
    /\ \E i \in CallsOf("gemini") : calls[i].failed
    /\ response.status = 200

\* C2: the escalation cycle runs at most once: at most two searches and two
\* syntheses per request, at most one of each after the completeness check,
\* and the completeness check is applied once, to the first answer only.
C2_EscalatesAtMostOnce ==
    /\ Cardinality(CallsOf("search")) <= 2
    /\ Cardinality(CallsOf("generate")) <= 2
    /\ Cardinality(CallsOf("is_answer_incomplete")) <= 1
    /\ \A e \in CallsOf("is_answer_incomplete") :
          /\ Cardinality({i \in CallsOf("search") : i > e}) <= 1
          /\ Cardinality({i \in CallsOf("generate") : i > e}) <= 1
          /\ \A i \in CallsOf("generate") : i < e => calls[i].cycle = 1
          /\ \A i \in CallsOf("generate") : i > e => calls[i].cycle = 2

\* a request answered after a second cycle whose answer is still incomplete
C2_Witness ==
    /\ pc = "done"
    /\ Cardinality(CallsOf("search")) = 2
    /\ Cardinality(CallsOf("generate")) = 2
    /\ is_answer_incomplete(broad_answer, user_query)
    /\ response.body.answer = broad_answer

\* the raw content of the latest user turn
LatestContent == ContentOf(Turns[LatestUserIndex(Turns)])

\* a configured abusive word or phrase occurs in text as a whole word
HasAbusiveWord(text) ==
    LET t == lower(text)
    IN  \E k \in 1..Len(ABUSIVE_WORDS) : \E i \in 1..(Len(t) - Len(ABUSIVE_WORDS[k]) + 1) :
            /\ SubSeq(t, i, i + Len(ABUSIVE_WORDS[k]) - 1) = ABUSIVE_WORDS[k]
            /\ WordBoundary(t, i)
            /\ WordBoundary(t, i + Len(ABUSIVE_WORDS[k]))

IsExactGreeting(text) == lower(text) \in greetings

ShortCircuitCase ==
    /\ AllTurns
    /\ LatestUserIndex(Turns) > 0
    /\ IsExactGreeting(LatestContent) \/ HasAbusiveWord(LatestContent)

\* C3: when the latest user turn is an exact greeting (ignoring case) or
\* holds an abusive word, the handler makes no topic, search or provider call
\* at any point and returns the canned answer of that case with no sources.
C3_ShortCircuit ==
    ShortCircuitCase =>
        /\ pc \in {"validate", "safety", "done"}
        /\ calls = <<>>
        /\ pc = "done" =>
              response = Jsonify(IF HasAbusiveWord(LatestContent)
                                 THEN polite_response ELSE GreetingAnswer, <<>>)

\* a greeting after earlier turns, answered with the canned greeting
C3_Witness ==
    /\ ShortCircuitCase
    /\ Len(Turns) > 1
    /\ IsExactGreeting(LatestContent)
    /\ pc = "done"
    /\ response.body.answer = GreetingAnswer

\* an abusive turn in upper case, answered with the redirect
C3_WitnessAbuse ==
    /\ ShortCircuitCase
    /\ HasAbusiveWord(LatestContent)
    /\ pc = "done"
    /\ response.body.answer = polite_response

\* a configured abusive word occurs in text, but only inside longer words
SubstringOnlyAbuse(text) ==
    /\ \E k \in 1..Len(ABUSIVE_WORDS) : In(ABUSIVE_WORDS[k], lower(text))
    /\ ~HasAbusiveWord(text)

\* C4: a latest user turn that holds an abusive word only as a part of a
\* longer word is treated as a normal turn: the request goes on to retrieval
\* and is not answered with the respectful redirect.
C4_WholeWordOnly ==
    (/\ AllTurns
     /\ LatestUserIndex(Turns) > 0
     /\ SubstringOnlyAbuse(LatestContent)
     /\ pc = "done")
    => /\ response.body.answer # polite_response
       /\ CallsOf("search") # {}

\* C5: the first search of a request is the restricted one, and a request
\* whose restricted search returned no results has made a broad search by the
\* time it returns.
C5_BroadWhenRestrictedEmpty ==
    /\ \A i \in CallsOf("search") :
          (\A j \in CallsOf("search") : i <= j) => ~calls[i].broad
    /\ pc = "done" =>
          \A i \in CallsOf("search") :
              (~calls[i].broad /\ calls[i].returned = <<>>)
              => \E j \in CallsOf("search") : calls[j].broad

\* C6: a request whose first answer was judged incomplete has, when it
\* returns, made exactly one more search and one more synthesis, and returns
\* the second answer with the second result list.
C6_SecondCycleReturned ==
    pc = "done" =>
        \A e \in CallsOf("is_answer_incomplete") :
            calls[e].incomplete =>
                /\ Cardinality({i \in CallsOf("search") : i > e}) = 1
                /\ Cardinality({i \in CallsOf("generate") : i > e}) = 1
                /\ response.body = [answer |-> broad_answer, sources |-> broad_results]

ProviderCalls(cycle) ==
    {i \in CallsOf("openai") \cup CallsOf("gemini") : calls[i].cycle = cycle}

IsProviderError(text) == \E e \in ProviderErrors : In(e, text)

\* the deterministic answer of the specification: the snippets of the top 3
\* results, each followed by its bracketed index
RECURSIVE SnippetAnswer(_, _)
SnippetAnswer(res, idx) ==
    IF idx > Min(3, Len(res)) THEN ""
    ELSE res[idx].snippet \o " [" \o Str(idx) \o "] " \o SnippetAnswer(res, idx + 1)

\* C7: when the first synthesis has returned and no provider gave an answer
\* (every provider call failed, or none was made), the answer is the snippets
\* of the top 3 results with their bracketed indices, or the fixed
\* consult-a-professional message when there are no results, and it is never
\* the text of a provider's error.
C7_DeterministicFallback ==
    (/\ pc = "evaluate"
     /\ \A i \in ProviderCalls(1) : calls[i].failed)
    => /\ ~IsProviderError(answer)
       /\ results = <<>> => answer = FallbackMessage
       /\ results # <<>> => answer = strip(SnippetAnswer(results, 1))

\* C8: a search call that fails (the request raises, or the key or the scope
\* id is missing) returns an empty list and does not raise; after a failed
\* restricted search the next step is the synthesis, given that empty list,
\* and after a failed broad search the handler goes on to its response.
C8_SearchFailureIsEmpty ==
    \A i \in CallsOf("search") :
        calls[i].failed =>
            /\ ~calls[i].raised
            /\ calls[i].returned = <<>>
            /\ pc # "raised"
            /\ ~calls[i].broad =>
                  IF i = Len(calls)
                  THEN pc = "generate" /\ gen.cycle = 1 /\ results = <<>>
                  ELSE /\ calls[i + 1].fn = "generate"
                       /\ calls[i + 1].cycle = 1
                       /\ calls[i + 1].results = <<>>
            /\ calls[i].broad =>
                  /\ i = Len(calls)
                  /\ pc \in {"respond", "done"}
                  /\ pc = "done" => response.status = 200

\* a request answered after its restricted search request failed and the
\* synthesis ran on the empty list
C8_Witness ==
    /\ pc = "done"
    /\ response.status = 200
    /\ \E i \in CallsOf("search") :
          /\ ~calls[i].broad /\ calls[i].sent /\ calls[i].failed
          /\ calls[i + 1].fn = "generate" /\ calls[i + 1].results = <<>>

\* messages is missing, is no list, or is a list with no user turn
InvalidRequest ==
    \/ Messages.type # "list"
    \/ /\ \A i \in 1..Len(Turns) : IsDict(Turns[i])
       /\ LatestUserIndex(Turns) = 0

\* C9: a request whose messages is missing, is no list or holds no user turn
\* is answered with a client-error status, and no call is made for it.
C9_ClientError ==
    InvalidRequest =>
        /\ calls = <<>>
        /\ pc = "done" => response.status \in 400..499

----------------------------------------------------------------------------
(* rewrite_query applied on its own *)

MaxWords == 3

QueryWords == <<"what", "about", "it", "That", "legitimate", "them,">>

RECURSIVE WordSeqs(_)
WordSeqs(n) ==
    IF n = 0 THEN {<<>>}
    ELSE WordSeqs(n - 1)
         \cup {Append(w, QueryWords[k]) : w \in WordSeqs(n - 1), k \in 1..Len(QueryWords)}

Queries == {Join(" ", w) : w \in WordSeqs(MaxWords)}

Topics == {None, Some(""), Some("diabetes"), Some("it")}

Idle ==
    /\ OPENAI_API_KEY = ""
    /\ GEMINI_API_KEY = ""
    /\ GOOGLE_SEARCH_KEY = ""
    /\ GOOGLE_SEARCH_CX_RESTRICTED = ""
    /\ GOOGLE_SEARCH_CX_BROAD = ""
    /\ data = [messages |-> [type |-> "none", val |-> <<>>]]
    /\ pc = "idle"
    /\ latest_user_message = None
    /\ last_topic = None
    /\ user_query = ""
    /\ results = <<>>
    /\ answer = ""
    /\ broad_results = <<>>
    /\ broad_answer = ""
    /\ gen = [cycle |-> 0, system_prompt |-> ""]
    /\ calls = <<>>
    /\ response = NoResponse

InitRewrite ==
    /\ Idle
    /\ \E q \in Queries, t \in Topics :
          fn = [name |-> "rewrite_query", query |-> q, topic |-> t,
                out |-> "", done |-> FALSE]

ApplyRewrite ==
    /\ fn.name = "rewrite_query"
    /\ ~fn.done
    /\ fn' = [fn EXCEPT !.out = rewrite_query(fn.query, fn.topic), !.done = TRUE]
    /\ UNCHANGED handlerVars

NextRewrite == ApplyRewrite

SpecRewrite == InitRewrite /\ [][NextRewrite]_vars

\* C10: rewrite_query with an absent topic (None or the empty str) returns
\* the query as it was given, also when the query holds vague references.
C10_AbsentTopicIdentity ==
    (fn.done /\ (fn.topic = None \/ fn.topic = Some(""))) => fn.out = fn.query

\* a query with a vague reference rewritten under the empty topic
C10_Witness ==
    /\ fn.done
    /\ fn.topic = Some("")
    /\ \E i \in 1..Len(fn.query) : PronounAt(fn.query, i) > 0
    /\ fn.out = fn.query

\* the end of the maximal run of word characters that starts at i
RECURSIVE WordEnd(_, _)
WordEnd(s, i) ==
    IF i < Len(s) /\ IsWordChar(Char(s, i + 1)) THEN WordEnd(s, i + 1) ELSE i

VagueReferences == {"it", "that", "those", "these", "them"}

\* the query read word by word: a word that is a vague reference in any
\* letter case becomes the topic, every other word and every character
\* between words is copied
RECURSIVE WordByWord(_, _, _)
WordByWord(topic, s, i) ==
    IF i > Len(s) THEN ""
    ELSE IF IsWordChar(Char(s, i))
    THEN LET e == WordEnd(s, i)
             w == SubSeq(s, i, e)
         IN  (IF lower(w) \in VagueReferences THEN topic ELSE w)
                 \o WordByWord(topic, s, e + 1)
    ELSE Char(s, i) \o WordByWord(topic, s, i + 1)

\* C11: with a present topic rewrite_query replaces every whole-word
\* occurrence of it/that/those/these/them, in any letter case, by the topic
\* and leaves every other word and separator as it was and in order; so
\* 'legitimate' is kept and 'what about it' becomes 'what about diabetes'.
C11_WholeWordRewrite ==
    (fn.done /\ ~Falsy(fn.topic)) =>
        /\ fn.out = WordByWord(fn.topic[1], fn.query, 1)
        /\ (fn.query = "legitimate") => fn.out = "legitimate"
        /\ (fn.query = "what about it" /\ fn.topic = Some("diabetes"))
               => fn.out = "what about diabetes"

\* a query with a capitalised reference, a reference before a comma and a
\* word that only contains one, rewritten under the topic diabetes
C11_Witness ==
    /\ fn.done
    /\ fn.topic = Some("diabetes")
    /\ fn.query = "That legitimate them,"
    /\ fn.out = "diabetes legitimate diabetes,"

----------------------------------------------------------------------------
(* the conversation history *)

\* C12: the history given in the request is the same after every step of the
\* handler, on every path: no turn is added, removed, reordered or changed;
\* every synthesis call is given that history as received, and the primary
\* provider gets it behind the system message, in a list of its own.
C12_HistoryUnchanged ==
    /\ [][data' = data]_vars
    /\ [](\A i \in 1..Len(calls) :
            /\ calls[i].fn = "generate" => calls[i].messages = Turns
            /\ calls[i].fn = "openai" =>
                   /\ Len(calls[i].messages) = Len(Turns) + 1
                   /\ Tail(calls[i].messages) = Turns)

\* a request with several turns answered after topic detection, two
\* syntheses and a provider call
C12_Witness ==
    /\ pc = "done"
    /\ Len(Turns) >= 2
    /\ CallsOf("nlp") # {}
    /\ Cardinality(CallsOf("generate")) = 2
    /\ \E i \in CallsOf("openai") :
          /\ calls[i].cycle = 2
          /\ Tail(calls[i].messages) = Turns

----------------------------------------------------------------------------
(* two requests served by one process *)

\* the locals of one execution of search_answer
Locals ==
    [data |-> data, pc |-> pc, latest_user_message |-> latest_user_message,
     last_topic |-> last_topic, user_query |-> user_query, results |-> results,
     answer |-> answer, broad_results |-> broad_results,
     broad_answer |-> broad_answer, gen |-> gen, calls |-> calls,
     response |-> response]

EntryLocals(request) ==
    [data |-> request, pc |-> "validate", latest_user_message |-> None,
     last_topic |-> None, user_query |-> "", results |-> <<>>, answer |-> "",
     broad_results |-> <<>>, broad_answer |-> "",
     gen |-> [cycle |-> 0, system_prompt |-> ""], calls |-> <<>>,
     response |-> NoResponse]

\* the histories of the two sessions
RequestHistories ==
    <<<<U("what is diabetes"), A("It is a disease."), U("what are the types of it")>>,
      <<U("What causes Asthma"), U("is that legitimate")>>>>

RequestOf(id) == [messages |-> [type |-> "list", val |-> RequestHistories[id]]]

\* the environments the two requests are served under
SharedKeys ==
    {<<"", "", "search-key", "cx-restricted", "">>,
     <<"sk-openai", "", "", "", "">>,
     <<"", "gemini-key", "", "", "">>}

\* a thread switch where the conversation is one list of the process: the
\* thread that resumes finds the turns the other one left there
SwitchSharedHistory ==
    /\ fn.name = "request"
    /\ fn.locals.pc \notin {"done", "raised"}
    /\ pc' = fn.locals.pc
    /\ latest_user_message' = fn.locals.latest_user_message
    /\ last_topic' = fn.locals.last_topic
    /\ user_query' = fn.locals.user_query
    /\ results' = fn.locals.results
    /\ answer' = fn.locals.answer
    /\ broad_results' = fn.locals.broad_results
    /\ broad_answer' = fn.locals.broad_answer
    /\ gen' = fn.locals.gen
    /\ calls' = fn.locals.calls
    /\ response' = fn.locals.response
    /\ fn' = [name |-> "request", id |-> 3 - fn.id, locals |-> Locals]
    /\ UNCHANGED <<OPENAI_API_KEY, GEMINI_API_KEY, GOOGLE_SEARCH_KEY,
                   GOOGLE_SEARCH_CX_RESTRICTED, GOOGLE_SEARCH_CX_BROAD, data>>

\* the running thread is suspended and the other request's thread resumes:
\* each thread has its own locals, the module globals stay
Switch ==
    /\ fn.name = "request"
    /\ fn.locals.pc \notin {"done", "raised"}
    /\ data' = fn.locals.data
    /\ pc' = fn.locals.pc
    /\ latest_user_message' = fn.locals.latest_user_message
    /\ last_topic' = fn.locals.last_topic
    /\ user_query' = fn.locals.user_query
    /\ results' = fn.locals.results
    /\ answer' = fn.locals.answer
    /\ broad_results' = fn.locals.broad_results
    /\ broad_answer' = fn.locals.broad_answer
    /\ gen' = fn.locals.gen
    /\ calls' = fn.locals.calls
    /\ response' = fn.locals.response
    /\ fn' = [name |-> "request", id |-> 3 - fn.id, locals |-> Locals]
    /\ UNCHANGED <<OPENAI_API_KEY, GEMINI_API_KEY, GOOGLE_SEARCH_KEY,
                   GOOGLE_SEARCH_CX_RESTRICTED, GOOGLE_SEARCH_CX_BROAD>>

InitTwo ==
    /\ \E k \in SharedKeys :
          /\ OPENAI_API_KEY = k[1]
          /\ GEMINI_API_KEY = k[2]
          /\ GOOGLE_SEARCH_KEY = k[3]
          /\ GOOGLE_SEARCH_CX_RESTRICTED = k[4]
          /\ GOOGLE_SEARCH_CX_BROAD = k[5]
    /\ data = RequestOf(1)
    /\ pc = "validate"
    /\ latest_user_message = None
    /\ last_topic = None
    /\ user_query = ""
    /\ results = <<>>
    /\ answer = ""
    /\ broad_results = <<>>
    /\ broad_answer = ""
    /\ gen = [cycle |-> 0, system_prompt |-> ""]
    /\ calls = <<>>
    /\ response = NoResponse
    /\ fn = [name |-> "request", id |-> 2, locals |-> EntryLocals(RequestOf(2))]

NextTwo ==
    \/ Validate
    \/ SafetyCheck
    \/ ResolveTopic
    \/ SearchRestricted
    \/ Generate
    \/ OpenAICall
    \/ GeminiCall
    \/ Evaluate
    \/ SearchBroad
    \/ Respond
    \/ Switch

SpecTwo == InitTwo /\ [][NextTwo]_vars

IsNlpCall(e) == e.fn = "nlp"

\* the latest call of f in a log before position i, 0 when there is none
PrevCall(log, f, i) ==
    LET before == {j \in 1..(i - 1) : log[j].fn = f}
    IN  IF before = {} THEN 0 ELSE CHOOSE j \in before : \A k \in before : k <= j

\* the answers a request can give from the texts its own provider calls gave
OwnAnswers(log) ==
    LET texts == {log[i].error : i \in {j \in 1..Len(log) : log[j].fn \in {"openai", "gemini"}}}
    IN  {clean_answer_placeholders(FallbackMessage)}
        \cup {clean_answer_placeholders(t) : t \in texts}
        \cup {clean_answer_placeholders(OpenAIErrorText(t)) : t \in texts}
        \cup {clean_answer_placeholders(GeminiErrorText(t)) : t \in texts}

\* the locals c of request id follow from its own turns and from the outcomes
\* of its own calls
DependsOnOwn(id, c) ==
    LET turns == RequestHistories[id]
        log == c.calls
        resolved == c.pc \notin {"validate", "safety", "resolve"}
    IN  /\ c.data = RequestOf(id)
        /\ resolved =>
              /\ \E nlp \in NlpOracles(turns) :
                    LET r == get_last_medical_topic(turns, nlp)
                    IN  /\ r.calls = SelectSeq(log, IsNlpCall)
                        /\ r.topic = c.last_topic
              /\ c.user_query = rewrite_query(LatestUserMessage(turns)[1], c.last_topic)
        /\ \A i \in 1..Len(log) :
              LET e == log[i]
                  s == PrevCall(log, "search", i)
                  g == PrevCall(log, "generate", i)
              IN  /\ e.fn = "nlp" => e.text \in UserTexts(turns)
                  /\ e.fn = "search" => e.q = c.user_query
                  /\ e.fn = "generate" =>
                        /\ e.messages = turns
                        /\ e.last_topic = c.last_topic
                        /\ s > 0 /\ e.results = log[s].returned
                  /\ e.fn = "openai" =>
                        e.messages =
                            openai_messages(turns, system_prompt(log[g].results, c.last_topic))
                  /\ e.fn = "gemini" =>
                        e.prompt =
                            conversation_text(turns, system_prompt(log[g].results, c.last_topic))
        /\ c.pc = "done" =>
              /\ c.response = Jsonify(c.answer, c.results)
              /\ c.answer \in OwnAnswers(log)
              /\ \E i \in 1..Len(log) : log[i].fn = "search" /\ log[i].returned = c.results

\* C13: the process holds no conversation state of its own: the module
\* globals are never written, a step of one request leaves the other
\* request's locals as they were, and under every interleaving of two
\* requests with different histories the topic, the query, the history sent
\* to the provider and the response of each follow from its own turns and
\* the outcomes of its own calls.
C13_RequestsIsolated ==
    /\ [](DependsOnOwn(3 - fn.id, Locals) /\ DependsOnOwn(fn.id, fn.locals))
    /\ [][/\ UNCHANGED <<OPENAI_API_KEY, GEMINI_API_KEY, GOOGLE_SEARCH_KEY,
                        GOOGLE_SEARCH_CX_RESTRICTED, GOOGLE_SEARCH_CX_BROAD>>
          /\ \/ fn' = fn
             \/ fn'.locals = Locals /\ Locals' = fn.locals]_vars

\* both requests in flight at once, each past its provider call, each with
\* the topic and the query of its own history
C13_Witness ==
    /\ fn.name = "request"
    /\ fn.id = 1
    /\ pc = "respond"
    /\ fn.locals.pc = "evaluate"
    /\ last_topic = Some("asthma")
    /\ user_query = "is asthma legitimate"
    /\ fn.locals.last_topic = Some("diabetes")
    /\ fn.locals.user_query = "what are the types of diabetes"
    /\ \E i \in CallsOf("openai") : ~calls[i].failed

----------------------------------------------------------------------------
(* the completeness check and the rewritten query *)

\* C14: the completeness evaluator decides from the answer and the original
\* user query, the latest user turn as it was before rewrite_query: the
\* decision to escalate is the same whatever topic was put in place of a
\* vague reference.
C14_OriginalQueryDecides ==
    \A i \in CallsOf("is_answer_incomplete") :
        calls[i].incomplete = is_answer_incomplete(calls[i].answer, latest_user_message[1])

----------------------------------------------------------------------------
(* is_answer_incomplete applied on its own *)

MaxPhrases == 2

AnswerPhrases ==
    <<"Sorry,", "I DON'T KNOW.", "We cannot find it.", "I need more information.",
      "There are two Types.", "It is a Kind of illness.", "As explained above.",
      "It is chronic.", "I do not know.">>

RECURSIVE PhraseSeqs(_)
PhraseSeqs(n) ==
    IF n = 0 THEN {<<>>}
    ELSE PhraseSeqs(n - 1)
         \cup {Append(w, AnswerPhrases[k]) : w \in PhraseSeqs(n - 1), k \in 1..Len(AnswerPhrases)}

Answers == {Join(" ", w) : w \in PhraseSeqs(MaxPhrases)}

UserQueries ==
    {"", "what is it", "TYPES of diabetes", "Explain asthma", "list them",
     "What Are the symptoms", "the different KINDS", "is it curable",
     "a typical day", "what about thekinds"}

InitIncomplete ==
    /\ Idle
    /\ \E a \in Answers, q \in UserQueries :
          fn = [name |-> "is_answer_incomplete", answer |-> a, query |-> q,
                out |-> FALSE, done |-> FALSE]

ApplyIncomplete ==
    /\ fn.name = "is_answer_incomplete"
    /\ ~fn.done
    /\ fn' = [fn EXCEPT !.out = is_answer_incomplete(fn.answer, fn.query), !.done = TRUE]
    /\ UNCHANGED handlerVars

NextIncomplete == ApplyIncomplete

SpecIncomplete == InitIncomplete /\ [][NextIncomplete]_vars

\* some word of the set occurs in the text, in any letter case
OccursAnyCase(words, text) ==
    \E w \in words : \E i \in 1..Len(text) : MatchesAt(w, text, i)

Hedges == {"sorry", "don't know", "cannot find", "need more information"}

EnumerationKeywords ==
    {"type", "types", "explain", "list", "what are", "different kinds", "kinds"}

Corroborating == {"type", "kind", "explain"}

\* C15: is_answer_incomplete is true exactly when the answer holds a hedge
\* phrase, or the query holds an enumeration keyword while the answer holds
\* none of type, kind, explain; it is false otherwise; letter case does not
\* matter on either side.
C15_IncompleteExactly ==
    fn.done =>
        (fn.out <=> \/ OccursAnyCase(Hedges, fn.answer)
                    \/ /\ OccursAnyCase(EnumerationKeywords, fn.query)
                       /\ ~OccursAnyCase(Corroborating, fn.answer))

\* an enumeration query in capitals and an answer with no hedge and no
\* corroborating word: incomplete
C15_Witness ==
    /\ fn.done
    /\ fn.query = "TYPES of diabetes"
    /\ fn.answer = "It is chronic. I do not know."
    /\ fn.out

----------------------------------------------------------------------------
(* the provider chain *)

\* an error of the quota / rate-limit class, by its text
QuotaClass(e) == In("quota", lower(e)) \/ In("rate limit", lower(e))

\* the synthesis of the given cycle has returned
CycleOver(cycle) ==
    /\ \E g \in CallsOf("generate") : calls[g].cycle = cycle
    /\ gen.cycle > cycle \/ pc \notin {"openai", "gemini"}

\* C16: in each synthesis the secondary provider (Gemini) is called only
\* after the primary (OpenAI) was unconfigured or failed with an error of
\* the quota / rate-limit class, and in every such case when it is
\* configured; it is given the same grounding instruction as the primary;
\* the primary is called first when configured, and its success ends the
\* chain with no secondary call.
C16_ProviderChain ==
    AllTurns =>
      \A cycle \in 1..2 :
        LET primary == {i \in CallsOf("openai") : calls[i].cycle = cycle}
            secondary == {i \in CallsOf("gemini") : calls[i].cycle = cycle}
        IN  /\ Cardinality(primary) <= 1 /\ Cardinality(secondary) <= 1
            /\ \A i \in secondary :
                  \/ OPENAI_API_KEY = "" /\ primary = {}
                  \/ \E j \in primary :
                        j < i /\ calls[j].failed /\ QuotaClass(calls[j].error)
            /\ (CycleOver(cycle) /\ GEMINI_API_KEY # "") =>
                  /\ OPENAI_API_KEY = "" => secondary # {}
                  /\ \A j \in primary :
                        (calls[j].failed /\ QuotaClass(calls[j].error)) => secondary # {}
            /\ \A i \in secondary, j \in primary :
                  SubSeq(calls[i].prompt, 1, Len(calls[j].messages[1].content))
                      = calls[j].messages[1].content
            /\ (CycleOver(cycle) /\ OPENAI_API_KEY # "") => primary # {}
            /\ \A j \in primary : ~calls[j].failed => secondary = {}

----------------------------------------------------------------------------
(* get_last_medical_topic applied on its own *)

TopicHistories ==
    AllHistories
    \cup {<<U("diabetes and headache"), A("diabetes"), U("Asthma or headache"), U("ok")>>,
          <<A("what is diabetes"), U("Asthma or headache"), A("headache")>>}

InitTopic ==
    /\ Idle
    /\ \E h \in TopicHistories : \E nlp \in NlpOracles(h) :
          fn = [name |-> "get_last_medical_topic", messages |-> h, nlp |-> nlp,
                raised |-> FALSE, out |-> None, done |-> FALSE]

ApplyTopic ==
    /\ fn.name = "get_last_medical_topic"
    /\ ~fn.done
    /\ LET r == get_last_medical_topic(fn.messages, fn.nlp)
       IN  fn' = [fn EXCEPT !.raised = r.raised, !.out = r.topic, !.done = TRUE]
    /\ UNCHANGED handlerVars

NextTopic == ApplyTopic

SpecTopic == InitTopic /\ [][NextTopic]_vars

Qualifies(e) == e.label_ \in {"DISEASE", "DISORDER", "SYMPTOM", "CONDITION"}

\* the qualifying entities the recognizer finds in turn i, in its order
QualifyingIn(i) == SelectSeq(fn.nlp[ContentOf(fn.messages[i])], Qualifies)

UserTurns == {i \in 1..Len(fn.messages) : IsUser(fn.messages[i])}

\* the most recent user turn with a qualifying entity, 0 when there is none
TopicTurn ==
    LET hits == {i \in UserTurns : QualifyingIn(i) # <<>>}
    IN  IF hits = {} THEN 0 ELSE CHOOSE i \in hits : \A j \in hits : j <= i

\* C17 as stated: get_last_medical_topic returns the first qualifying entity
\* of the most recent user turn that has one, as the recognizer gives it, and
\* is absent when no user turn has one.
C17_ReturnsEntityAsFound ==
    (fn.done /\ ~fn.raised) =>
        fn.out = IF TopicTurn = 0 THEN None ELSE Some(QualifyingIn(TopicTurn)[1].text)

\* C17, amended: get_last_medical_topic scans newest-first, skips assistant
\* turns, and returns the lower-cased text of the first qualifying (disease,
\* disorder, symptom, condition) entity of the most recent user turn that has
\* one; an older turn's entity is returned only when every newer user turn
\* has none, and the result is absent when no user turn has one.
C17_ReturnsLoweredEntity ==
    (fn.done /\ ~fn.raised) =>
        fn.out = IF TopicTurn = 0 THEN None
                 ELSE Some(lower(QualifyingIn(TopicTurn)[1].text))

\* the newest user turn has no entity, the one before it has two qualifying
\* ones and an assistant turn and an older user turn with entities lie around
C17_Witness ==
    /\ fn.done
    /\ ~fn.raised
    /\ Len(fn.messages) = 4
    /\ TopicTurn = 3
    /\ QualifyingIn(1) # <<>>
    /\ Len(QualifyingIn(3)) = 2
    /\ fn.out = Some("asthma")

----------------------------------------------------------------------------
(* the answer and its sources *)

\* what generate_answer_with_sources returns when the chain ends with no
\* Gemini call made
NoSecondaryReturn ==
    IF GEMINI_API_KEY # "" THEN GeminiErrorText(ConversationKeyError(Turns))
    ELSE FallbackMessage

\* the text the synthesis of a cycle returned, read from the calls it made
CycleAnswer(cycle) ==
    LET made == ProviderCalls(cycle)
    IN  IF made = {} THEN NoSecondaryReturn
        ELSE LET e == calls[CHOOSE i \in made : \A j \in made : j <= i]
             IN  IF ~e.failed THEN e.error
                 ELSE IF e.fn = "gemini" THEN GeminiErrorText(e.error)
                 ELSE IF ~In("quota", lower(e.error)) THEN OpenAIErrorText(e.error)
                 ELSE NoSecondaryReturn

\* C18: on every path that reaches the synthesizer the sources returned are
\* the result list given to the synthesizer call that produced the answer
\* returned: the first answer goes with the restricted results, the second
\* with the broad results, and the two are replaced together or not at all.
C18_SourcesOfTheAnswer ==
    (pc = "done" /\ CallsOf("generate") # {}) =>
        \E g \in CallsOf("generate") :
            /\ response.body.sources = calls[g].results
            /\ response.body.answer = clean_answer_placeholders(CycleAnswer(calls[g].cycle))

\* a response that carries the second cycle's answer with the broad results,
\* both different from the first cycle's
C18_Witness ==
    /\ pc = "done"
    /\ \E g1, g2 \in CallsOf("generate") :
          /\ calls[g1].cycle = 1
          /\ calls[g2].cycle = 2
          /\ calls[g1].results # <<>>
          /\ calls[g1].results # calls[g2].results
          /\ response.body.sources = calls[g2].results
          /\ response.body.answer = clean_answer_placeholders(CycleAnswer(2))
          /\ response.body.answer # clean_answer_placeholders(CycleAnswer(1))

====
